---- MODULE Spec2Model ----
(***************************************************************************)
(* Model of valkey/_parsers/libvalkey.py: the blocking reply reader        *)
(* _LibvalkeyParser and the cooperative reply reader _AsyncLibvalkeyParser,*)
(* each driving a libvalkey.Reader (feed / gets) from a byte transport.    *)
(***************************************************************************)
EXTENDS Integers, Sequences, FiniteSets, TLC

\* ------------------------------------------------------------------ bounds
\* replies per connection stream
MaxReplies == 2
\* bytes of a stream of several replies
MaxWire == 3
\* capacity of the read buffer (constructor argument socket_read_size)
socket_read_size == 3

Min(a, b) == IF a < b THEN a ELSE b

\* ------------------------------------------------------------ reply values
\* A value is [t, v, e]: t its type, v its scalar payload, e its elements.
NOT_ENOUGH_DATA == [t |-> "NOT_ENOUGH_DATA", v |-> "", e |-> <<>>]

Str(x) == [t |-> "str", v |-> x, e |-> <<>>]
Bytes(x) == [t |-> "bytes", v |-> x, e |-> <<>>]
Bool(x) == [t |-> "bool", v |-> x, e |-> <<>>]
Nil == [t |-> "nil", v |-> "", e |-> <<>>]
List(es) == [t |-> "list", v |-> "", e |-> es]

\* replyError factory: the error value built for a server-reported error
parse_error(msg) == [t |-> "error", v |-> msg, e |-> <<>>]

\* isinstance(response, ConnectionError)
IsConnectionError(val) == val.t = "error"

\* ---------------------------------------------------------- wire encoding
\* One byte of type tag, then the payload; "*" is followed by a count and
\* that many encoded elements.
DigitChar(n) == CASE n = 0 -> "0" [] n = 1 -> "1" [] n = 2 -> "2" [] OTHER -> "3"
Digit(c) == CASE c = "0" -> 0 [] c = "1" -> 1 [] c = "2" -> 2 [] OTHER -> 3

RECURSIVE Encode(_)
RECURSIVE EncodeAll(_)
Encode(val) ==
    CASE val.t = "nil" -> <<"_">>
      [] val.t = "str" -> <<"+", val.v>>
      [] val.t = "error" -> <<"-", val.v>>
      [] val.t = "bool" -> <<"#", val.v>>
      [] val.t = "list" -> <<"*", DigitChar(Len(val.e))>> \o EncodeAll(val.e)
      [] OTHER -> <<>>
EncodeAll(vals) ==
    IF vals = <<>> THEN <<>> ELSE Encode(Head(vals)) \o EncodeAll(Tail(vals))

\* ------------------------------------------------------ incremental decoder
\* libvalkey.Reader: buf is the fed, not yet decoded bytes; encoding is set
\* when the connection decodes responses.
Incomplete == [ok |-> FALSE, val |-> NOT_ENOUGH_DATA, next |-> 0]

Scalar(tag, c, text) ==
    CASE tag = "+" -> IF text THEN Str(c) ELSE Bytes(c)
      [] tag = "-" -> parse_error(c)
      [] OTHER -> Bool(c)

RECURSIVE ParseAt(_, _, _)
RECURSIVE ParseItems(_, _, _, _, _)
ParseAt(buf, i, text) ==
    IF i > Len(buf) THEN Incomplete
    ELSE IF buf[i] = "_" THEN [ok |-> TRUE, val |-> Nil, next |-> i + 1]
    ELSE IF buf[i] \in {"+", "-", "#"} THEN
        IF i + 1 > Len(buf) THEN Incomplete
        ELSE [ok |-> TRUE, val |-> Scalar(buf[i], buf[i + 1], text), next |-> i + 2]
    ELSE IF buf[i] = "*" THEN
        IF i + 1 > Len(buf) THEN Incomplete
        ELSE ParseItems(buf, i + 2, Digit(buf[i + 1]), text, <<>>)
    ELSE Incomplete
ParseItems(buf, i, n, text, acc) ==
    IF n = 0 THEN [ok |-> TRUE, val |-> List(acc), next |-> i]
    ELSE LET r == ParseAt(buf, i, text)
         IN IF ~r.ok THEN Incomplete
            ELSE ParseItems(buf, r.next, n - 1, text, Append(acc, r.val))

NoReader == [alive |-> FALSE, encoding |-> FALSE, buf |-> <<>>]

\* a decoder that starts out holding a byte
NewReader_dirty(decode_responses) ==
    [alive |-> TRUE, encoding |-> decode_responses, buf |-> <<"+">>]

NewReader(decode_responses) ==
    [alive |-> TRUE, encoding |-> decode_responses, buf |-> <<>>]

\* Reader.feed(data)
Feed(rd, data) == [rd EXCEPT !.buf = rd.buf \o data]

\* Reader.gets(shouldDecode): the value produced, NOT_ENOUGH_DATA if the fed
\* bytes do not hold a complete reply
GetsValue(rd, shouldDecode) ==
    ParseAt(rd.buf, 1, rd.encoding /\ shouldDecode).val
\* the decoder after that gets call: a produced reply leaves the decoder
GetsReader(rd, shouldDecode) ==
    LET r == ParseAt(rd.buf, 1, rd.encoding /\ shouldDecode)
    IN IF r.ok THEN [rd EXCEPT !.buf = SubSeq(rd.buf, r.next, Len(rd.buf))]
       ELSE rd

\* ------------------------------------------------- what the server sends
Replies ==
    { Str("a"), parse_error("e"), Bool("f"), Nil, List(<<>>),
      List(<<parse_error("e"), Str("a")>>) }
RECURSIVE Wire(_)
Wire(stream) ==
    IF stream = <<>> THEN <<>> ELSE Encode(Head(stream)) \o Wire(Tail(stream))

\* replies sent back to back on one connection
Pipelined == { Str("a"), Nil }
Streams ==
    [1..1 -> Replies] \cup
    { st \in UNION { [1..n -> Pipelined] : n \in 2..MaxReplies } :
        Len(Wire(st)) <= MaxWire }

\* the Python value of a server reply under a decode mode
RECURSIVE View(_, _)
View(val, text) ==
    CASE val.t = "str" -> IF text THEN val ELSE Bytes(val.v)
      [] val.t = "list" -> List([i \in 1..Len(val.e) |-> View(val.e[i], text)])
      [] OTHER -> val

\* a surfacing that looks at the response only, not at its first element
Surface_headOnly(response) ==
    IF IsConnectionError(response)
    THEN [out |-> "raise", val |-> response]
    ELSE [out |-> "return", val |-> response]

\* the error surfacing at the end of read_response: raise the response, or
\* its first element, when that is a ConnectionError; else return it
Surface(response) ==
    IF IsConnectionError(response)
    THEN [out |-> "raise", val |-> response]
    ELSE IF response.t = "list" /\ response.e # <<>> /\ IsConnectionError(response.e[1])
    THEN [out |-> "raise", val |-> response.e[1]]
    ELSE [out |-> "return", val |-> response]

\* ------------------------------------------------------------------ state
\* standing timeouts a connection may be configured with, and the override
\* timeouts a caller may pass to can_read
SocketTimeouts == {0, 2}
ProbeTimeouts == {0, 1}

\* would-block conditions and the error code allow-listed for each
NONBLOCKING_EXCEPTIONS == {"BlockingIOError", "SSLWantReadError"}
NONBLOCKING_EXCEPTION_ERROR_NUMBERS ==
    [BlockingIOError |-> 11, SSLWantReadError |-> 2]
Errnos == {2, 11}

VARIABLES
    parser,           \* "sync": _LibvalkeyParser, "async": _AsyncLibvalkeyParser
    reader,           \* self._reader
    next_response,    \* self._next_response (sync)
    sock,             \* self._sock is not None (sync)
    socket_timeout,   \* self._socket_timeout (sync)
    connected,        \* self._connected (async)
    sock_timeout,     \* the timeout in effect on the socket
    future,           \* bytes the peer has yet to deliver
    sockbuf,          \* bytes delivered and not yet read
    eof,              \* the peer closed the stream
    stale,            \* bytes the previous stream may still yield to a suspended read
    stale_read,       \* the suspended read is bound to the previous stream
    pc,               \* position of the caller inside the reader
    dd,               \* disable_decoding of the read_response in progress
    result,           \* outcome of the call the last step completed, if any
    io,               \* the transport event of the last step, if any
    stream,           \* replies the peer sends on this connection
    delivered,        \* replies read_response returned or raised on this connection
    taken,            \* who took each reply out of the decoder, in order
    timed_out,        \* a read_response raised ReadTimeout on this connection
    crossed,          \* a read was in flight when this connection was made
    opened            \* on_connect has been called

vars == <<parser, reader, next_response, sock, socket_timeout, connected,
          sock_timeout, future, sockbuf, eof, stale, stale_read, pc, dd, result, io,
          stream, delivered, taken, timed_out, crossed, opened>>

transport == <<future, sockbuf, eof>>
history == <<stream, delivered, taken, timed_out, crossed, opened>>
syncOnly == <<next_response, sock, socket_timeout, sock_timeout>>
asyncOnly == <<connected, stale, stale_read>>

NoResult == [op |-> "none", out |-> "none", val |-> NOT_ENOUGH_DATA, exc |-> "", b |-> FALSE]
Returned(op, val) == [op |-> op, out |-> "return", val |-> val, exc |-> "", b |-> FALSE]
ReturnedBool(op, b) == [op |-> op, out |-> "return", val |-> NOT_ENOUGH_DATA, exc |-> "", b |-> b]
Raised(op, exc) == [op |-> op, out |-> "raise", val |-> NOT_ENOUGH_DATA, exc |-> exc, b |-> FALSE]
RaisedReply(op, val) == [op |-> op, out |-> "raise", val |-> val, exc |-> "ReplyError", b |-> FALSE]

NoIO == [kind |-> "none", n |-> 0, cls |-> ""]
IO(kind, n) == [kind |-> kind, n |-> n, cls |-> ""]
\* recv_into raised the would-block exception cls with error code errno
WouldBlock(cls, errno) == [kind |-> "wouldblock", n |-> errno, cls |-> cls]

\* ConnectionError(SERVER_CLOSED_CONNECTION_ERROR)
ConnectionClosed == "ConnectionError: Connection closed by server."
\* TimeoutError("Timeout reading from socket")
ReadTimeout == "TimeoutError: Timeout reading from socket"
\* ConnectionError(f"Error while reading from socket: {ex.args}")
TransportError == "ConnectionError: Error while reading from socket"
\* an exception of recv_into that no except clause names
OSError == "OSError"

Init ==
    /\ parser \in {"sync", "async"}
    /\ reader = NoReader
    /\ next_response = NOT_ENOUGH_DATA
    /\ sock = FALSE
    /\ socket_timeout = 0
    /\ connected = FALSE
    /\ sock_timeout = 0
    /\ future = <<>>
    /\ sockbuf = <<>>
    /\ eof = FALSE
    /\ stale = <<>>
    /\ stale_read = FALSE
    /\ pc = "idle"
    /\ dd = FALSE
    /\ result = NoResult
    /\ io = NoIO
    /\ stream = <<>>
    /\ delivered = <<>>
    /\ taken = <<>>
    /\ timed_out = FALSE
    /\ crossed = FALSE
    /\ opened = FALSE

\* ------------------------------------------------------------ sync reader
\* what the reader holds of its connection: the bytes fed and not yet
\* decoded, and the cached reply
Held == Len(reader.buf) + IF next_response = NOT_ENOUGH_DATA THEN 0 ELSE 1

\* the connection made by this step replaces one that was dropped holding n
Connect == IO("connect", IF io.kind = "disconnect" THEN io.n ELSE 0)

\* if not self._reader
NoReaderLeft(rd) == ~rd.alive

\* a loop that reads the transport at most once: if instead of while
LoopAgain_once(response) == FALSE

\* while response is NOT_ENOUGH_DATA
LoopAgain(response) == response = NOT_ENOUGH_DATA

\* ghost bookkeeping of a completed read_response that produced a reply
Deliver(o, disable_decoding) ==
    Append(delivered, [out |-> o.out, val |-> o.val, dd |-> disable_decoding])

ReplyResult(o) ==
    IF o.out = "raise" THEN RaisedReply("read_response", o.val)
    ELSE Returned("read_response", o.val)

\* _LibvalkeyParser.on_connect
on_connect(st, decode_responses, timeout) ==
    /\ parser = "sync" /\ pc = "idle" /\ ~sock
    /\ sock' = TRUE
    /\ socket_timeout' = timeout
    /\ sock_timeout' = timeout
    /\ reader' = NewReader(decode_responses)
    /\ next_response' = NOT_ENOUGH_DATA
    /\ future' = Wire(st) /\ sockbuf' = <<>> /\ eof' = FALSE
    /\ stream' = st /\ delivered' = <<>> /\ taken' = <<>>
    /\ crossed' = FALSE /\ timed_out' = FALSE
    /\ opened' = TRUE
    /\ result' = NoResult /\ io' = Connect
    /\ UNCHANGED <<parser, pc, dd, asyncOnly>>

\* _LibvalkeyParser.on_disconnect
on_disconnect ==
    /\ parser = "sync" /\ pc = "idle" /\ opened
    /\ sock' = FALSE
    /\ reader' = NoReader
    /\ next_response' = NOT_ENOUGH_DATA
    /\ result' = NoResult /\ io' = IO("disconnect", Held)
    /\ UNCHANGED <<parser, socket_timeout, sock_timeout, transport,
                   pc, dd, history, asyncOnly>>

\* _LibvalkeyParser.can_read, up to its call of read_from_socket
can_read(timeout) ==
    /\ parser = "sync" /\ pc = "idle" /\ opened
    /\ io' = NoIO
    /\ IF NoReaderLeft(reader) THEN
          /\ result' = Raised("can_read", ConnectionClosed)
          /\ UNCHANGED <<reader, next_response, sock_timeout, pc, taken>>
       ELSE IF next_response # NOT_ENOUGH_DATA THEN
          /\ result' = ReturnedBool("can_read", TRUE)
          /\ UNCHANGED <<reader, next_response, sock_timeout, pc, taken>>
       ELSE IF GetsValue(reader, TRUE) # NOT_ENOUGH_DATA THEN
          /\ next_response' = GetsValue(reader, TRUE)
          /\ reader' = GetsReader(reader, TRUE)
          /\ taken' = Append(taken, "probe")
          /\ result' = ReturnedBool("can_read", TRUE)
          /\ UNCHANGED <<sock_timeout, pc>>
       ELSE
          \* read_from_socket(timeout=timeout, raise_on_timeout=False):
          \* sock.settimeout(timeout), then recv_into
          /\ sock_timeout' = timeout
          /\ pc' = "cr_recv"
          /\ result' = NoResult
          /\ UNCHANGED <<reader, next_response, taken>>
    /\ UNCHANGED <<parser, sock, socket_timeout, transport, dd,
                   stream, delivered, timed_out, crossed, opened, asyncOnly>>

\* the cached reply of read_response: what the caller gets for a reply that
\* can_read left in _next_response
Cached(response) == [out |-> "return", val |-> response]

\* a read_response that leaves the reply it returns in the slot
EmptySlot_kept(response) == response

\* self._next_response = NOT_ENOUGH_DATA, once the cached reply is taken
EmptySlot(response) == NOT_ENOUGH_DATA

\* _LibvalkeyParser.read_response, up to its first call of read_from_socket
read_response(disable_decoding) ==
    /\ parser = "sync" /\ pc = "idle" /\ opened
    /\ io' = NoIO
    /\ IF NoReaderLeft(reader) THEN
          /\ result' = Raised("read_response", ConnectionClosed)
          /\ UNCHANGED <<reader, next_response, pc, dd, delivered, taken>>
       ELSE IF next_response # NOT_ENOUGH_DATA THEN
          /\ next_response' = EmptySlot(next_response)
          /\ result' = ReplyResult(Cached(next_response))
          /\ delivered' = Deliver(Cached(next_response), disable_decoding)
          /\ UNCHANGED <<reader, pc, dd, taken>>
       ELSE IF ~LoopAgain(GetsValue(reader, ~disable_decoding)) THEN
          /\ reader' = GetsReader(reader, ~disable_decoding)
          /\ taken' = Append(taken, "read")
          /\ result' = ReplyResult(Surface(GetsValue(reader, ~disable_decoding)))
          /\ delivered' = Deliver(Surface(GetsValue(reader, ~disable_decoding)),
                                  disable_decoding)
          /\ UNCHANGED <<next_response, pc, dd>>
       ELSE
          \* while response is NOT_ENOUGH_DATA: self.read_from_socket()
          /\ pc' = "rr_recv"
          /\ dd' = disable_decoding
          /\ result' = NoResult
          /\ UNCHANGED <<reader, next_response, delivered, taken>>
    /\ UNCHANGED <<parser, sock, socket_timeout, sock_timeout, transport,
                   stream, timed_out, crossed, opened, asyncOnly>>

\* read_from_socket is inside can_read (override timeout, no raise on
\* timeout) or inside read_response (no override, raise on timeout)
InReadFromSocket == parser = "sync" /\ pc \in {"cr_recv", "rr_recv"}
custom_timeout == pc = "cr_recv"
\* a read_from_socket that raises on timeout whoever calls it
raise_on_timeout_always == TRUE
raise_on_timeout == pc = "rr_recv"
Caller == IF pc = "cr_recv" THEN "can_read" ELSE "read_response"

\* a read_from_socket without the finally clause
RestoreTimeout_never(custom) == sock_timeout

\* finally: if custom_timeout: sock.settimeout(self._socket_timeout)
RestoreTimeout(custom) == IF custom THEN socket_timeout ELSE sock_timeout

\* a timeout handler that ignores raise_on_timeout
OnTimeout_swallow(raising, op) == ReturnedBool(op, FALSE)

\* except socket.timeout
OnTimeout(raising, op) ==
    IF raising THEN Raised(op, ReadTimeout) ELSE ReturnedBool(op, FALSE)

\* a handler that takes every would-block for "no data" unless raising
OnWouldBlock_anyErrno(raising, op, cls, errno) ==
    IF ~raising THEN ReturnedBool(op, FALSE) ELSE Raised(op, TransportError)

\* except NONBLOCKING_EXCEPTIONS as ex
OnWouldBlock(raising, op, cls, errno) ==
    IF ~raising /\ errno = NONBLOCKING_EXCEPTION_ERROR_NUMBERS[cls]
    THEN ReturnedBool(op, FALSE)
    ELSE Raised(op, TransportError)

\* a zero-byte read taken for "no data yet"
OnZeroRead_noData(op) == ReturnedBool(op, FALSE)

\* bufflen == 0
OnZeroRead(op) == Raised(op, ConnectionClosed)

\* a catch-all except clause that wraps every other error
OnOtherError_wrapped(op) == Raised(op, TransportError)

\* an exception of recv_into that is neither socket.timeout nor one of
\* NONBLOCKING_EXCEPTIONS: no except clause handles it
OnOtherError(op) == Raised(op, OSError)

\* self._buffer = bytearray(socket_read_size): the reusable read buffer as a
\* call of recv_into finds it; "z" stands for whatever byte an earlier read
\* or the constructor left at that position
Buffer == [i \in 1..socket_read_size |-> "z"]

\* a receive that reports the byte count and leaves the buffer as it was
RecvInto_lost(buf, data) == buf

\* recv_into(self._buffer): the buffer after bufflen bytes were received
RecvInto(buf, data) ==
    [i \in 1..Len(buf) |-> IF i <= Len(data) THEN data[i] ELSE buf[i]]

\* a feed that starts one byte into the buffer
FeedSlice_offByOne(buf, bufflen) == SubSeq(buf, 2, Min(Len(buf), bufflen + 1))

\* a feed of the whole buffer, whatever the read returned
FeedSlice_wholeBuffer(buf, bufflen) == buf

\* self._reader.feed(self._buffer, 0, bufflen)
FeedSlice(buf, bufflen) == SubSeq(buf, 1, bufflen)

\* recv_into returned bufflen > 0 bytes
SockRecvData ==
    /\ InReadFromSocket /\ sockbuf # <<>>
    /\ LET bufflen == Min(socket_read_size, Len(sockbuf))
           buf2 == RecvInto(Buffer, SubSeq(sockbuf, 1, bufflen))
           fed == Feed(reader, FeedSlice(buf2, bufflen))
           response == GetsValue(fed, ~dd)
       IN /\ io' = IO("data", bufflen)
          /\ sockbuf' = SubSeq(sockbuf, bufflen + 1, Len(sockbuf))
          /\ sock_timeout' = RestoreTimeout(custom_timeout)
          /\ IF pc = "cr_recv" THEN
                /\ reader' = fed
                /\ result' = ReturnedBool("can_read", TRUE)
                /\ pc' = "idle"
                /\ UNCHANGED <<delivered, taken>>
             ELSE IF LoopAgain(response) THEN
                /\ reader' = fed
                /\ result' = NoResult
                /\ UNCHANGED <<pc, delivered, taken>>
             ELSE
                /\ reader' = GetsReader(fed, ~dd)
                /\ taken' = Append(taken, "read")
                /\ result' = ReplyResult(Surface(response))
                /\ delivered' = Deliver(Surface(response), dd)
                /\ pc' = "idle"
    /\ UNCHANGED <<parser, next_response, sock, socket_timeout, future, eof, dd,
                   stream, timed_out, crossed, opened, asyncOnly>>

\* a failed read_from_socket: the call in progress ends with outcome r
SockFail(ev, r) ==
    /\ result' = r
    /\ io' = ev
    /\ sock_timeout' = RestoreTimeout(custom_timeout)
    /\ pc' = "idle"
    /\ timed_out' = (timed_out \/ r.exc = ReadTimeout)
    /\ UNCHANGED <<parser, reader, next_response, sock, socket_timeout,
                   transport, dd, stream, delivered, taken, crossed,
                   opened, asyncOnly>>

\* recv_into returned 0: the peer closed the stream
SockRecvZero ==
    /\ InReadFromSocket /\ sockbuf = <<>> /\ eof
    /\ SockFail(IO("zero", 0), OnZeroRead(Caller))

\* recv_into raised socket.timeout
SockRecvTimeout ==
    /\ InReadFromSocket /\ sockbuf = <<>> /\ ~eof /\ sock_timeout > 0
    /\ SockFail(IO("timeout", 0), OnTimeout(raise_on_timeout, Caller))

\* recv_into raised one of NONBLOCKING_EXCEPTIONS
SockRecvWouldBlock(cls, errno) ==
    /\ InReadFromSocket /\ sockbuf = <<>> /\ ~eof /\ sock_timeout = 0
    /\ SockFail(WouldBlock(cls, errno),
                OnWouldBlock(raise_on_timeout, Caller, cls, errno))

\* recv_into raised another OSError (connection reset, ...)
SockRecvOSError ==
    /\ InReadFromSocket
    /\ SockFail(IO("oserror", 0), OnOtherError(Caller))

\* -------------------------------------------------------------- transport
IsConnected == IF parser = "sync" THEN sock ELSE opened

\* the peer's next k bytes arrive
Arrive(k) ==
    /\ IsConnected /\ k \in 1..Len(future)
    /\ sockbuf' = sockbuf \o SubSeq(future, 1, k)
    /\ future' = SubSeq(future, k + 1, Len(future))
    /\ result' = NoResult /\ io' = NoIO
    /\ UNCHANGED <<parser, reader, syncOnly, asyncOnly, eof, pc, dd, history>>

\* the peer closes the stream; what it had not sent never arrives
Close ==
    /\ IsConnected /\ ~eof
    /\ eof' = TRUE
    /\ future' = <<>>
    /\ result' = NoResult /\ io' = NoIO
    /\ UNCHANGED <<parser, reader, syncOnly, asyncOnly, sockbuf, pc, dd, history>>

\* ----------------------------------------------------------- async reader
\* streams of a connection made while a read of the previous one is suspended
CrossStreams == { <<Nil>> }

\* _AsyncLibvalkeyParser.on_connect.  A read_response suspended in its
\* transport read stays bound to the stream it was called on.
a_on_connect(st, decode_responses) ==
    /\ parser = "async" /\ ~connected
    /\ pc # "idle" => st \in CrossStreams
    /\ reader' = NewReader(decode_responses)
    /\ connected' = TRUE
    /\ stale_read' = (pc = "a_rr_await")
    /\ stale' = IF pc # "a_rr_await" THEN <<>>
                ELSE IF stale_read THEN stale
                ELSE SubSeq(sockbuf \o future, 1,
                            Min(socket_read_size, Len(sockbuf) + Len(future)))
    /\ future' = Wire(st) /\ sockbuf' = <<>> /\ eof' = FALSE
    /\ stream' = st /\ delivered' = <<>> /\ taken' = <<>>
    /\ crossed' = (pc # "idle") /\ timed_out' = FALSE
    /\ opened' = TRUE
    /\ result' = NoResult /\ io' = Connect
    /\ UNCHANGED <<parser, syncOnly, pc, dd>>

\* _AsyncLibvalkeyParser.on_disconnect
a_on_disconnect ==
    /\ parser = "async" /\ opened
    /\ connected' = FALSE
    /\ result' = NoResult /\ io' = IO("disconnect", Held)
    /\ UNCHANGED <<parser, reader, syncOnly, stale, stale_read, transport, pc, dd,
                   history>>

\* a guard that tests the decoder handle, as the sync reader does
NotConnected_byReader == ~reader.alive

\* if not self._connected
NotConnected == ~connected

\* if not buffer or not isinstance(buffer, bytes)
AsyncOnZeroRead(op) == Raised(op, ConnectionClosed)

\* buffer = await self._stream.read(self._read_size), when bytes are there
AsyncChunk == SubSeq(sockbuf, 1, Min(socket_read_size, Len(sockbuf)))

\* _AsyncLibvalkeyParser.can_read_destructive, up to the suspension of its
\* transport read inside the zero-duration window
can_read_destructive ==
    /\ parser = "async" /\ pc = "idle" /\ opened
    /\ IF NotConnected THEN
          /\ result' = Raised("can_read_destructive", ConnectionClosed)
          /\ io' = NoIO
          /\ UNCHANGED <<reader, sockbuf, pc, taken>>
       ELSE IF GetsValue(reader, TRUE) # NOT_ENOUGH_DATA THEN
          /\ reader' = GetsReader(reader, TRUE)
          /\ taken' = Append(taken, "probe")
          /\ result' = ReturnedBool("can_read_destructive", TRUE)
          /\ io' = NoIO
          /\ UNCHANGED <<sockbuf, pc>>
       ELSE IF sockbuf # <<>> THEN
          \* the read completes without suspending
          /\ reader' = Feed(reader, AsyncChunk)
          /\ sockbuf' = SubSeq(sockbuf, Len(AsyncChunk) + 1, Len(sockbuf))
          /\ result' = ReturnedBool("can_read_destructive", TRUE)
          /\ io' = IO("data", Len(AsyncChunk))
          /\ UNCHANGED <<pc, taken>>
       ELSE IF eof THEN
          /\ result' = AsyncOnZeroRead("can_read_destructive")
          /\ io' = IO("zero", 0)
          /\ UNCHANGED <<reader, sockbuf, pc, taken>>
       ELSE
          /\ pc' = "a_crd_await"
          /\ result' = NoResult
          /\ io' = NoIO
          /\ UNCHANGED <<reader, sockbuf, taken>>
    /\ UNCHANGED <<parser, syncOnly, asyncOnly, future, eof, dd, stream, delivered,
                   timed_out, crossed, opened>>

\* an expiry that loses a byte which arrived during the window
ZeroWindowExpired_consuming ==
    /\ parser = "async" /\ pc = "a_crd_await"
    /\ result' = ReturnedBool("can_read_destructive", FALSE)
    /\ io' = IO("expired", 0)
    /\ pc' = "idle"
    /\ sockbuf' = IF sockbuf = <<>> THEN sockbuf ELSE Tail(sockbuf)
    /\ UNCHANGED <<parser, reader, syncOnly, asyncOnly, future, eof, dd, history>>

\* except asyncio.TimeoutError: the zero-duration window elapsed while the
\* read was suspended
ZeroWindowExpired ==
    /\ parser = "async" /\ pc = "a_crd_await"
    /\ result' = ReturnedBool("can_read_destructive", FALSE)
    /\ io' = IO("expired", 0)
    /\ pc' = "idle"
    /\ UNCHANGED <<parser, reader, syncOnly, asyncOnly, transport, dd, history>>

\* _AsyncLibvalkeyParser.read_response, up to its first transport read
a_read_response(disable_decoding) ==
    /\ parser = "async" /\ pc = "idle" /\ opened
    /\ io' = NoIO
    /\ IF NotConnected THEN
          /\ result' = Raised("read_response", ConnectionClosed)
          /\ UNCHANGED <<reader, pc, dd, delivered, taken>>
       ELSE IF ~LoopAgain(GetsValue(reader, ~disable_decoding)) THEN
          /\ reader' = GetsReader(reader, ~disable_decoding)
          /\ taken' = Append(taken, "read")
          /\ result' = ReplyResult(Surface(GetsValue(reader, ~disable_decoding)))
          /\ delivered' = Deliver(Surface(GetsValue(reader, ~disable_decoding)),
                                  disable_decoding)
          /\ UNCHANGED <<pc, dd>>
       ELSE
          \* while response is NOT_ENOUGH_DATA: await self.read_from_socket()
          /\ pc' = "a_rr_await"
          /\ dd' = disable_decoding
          /\ result' = NoResult
          /\ UNCHANGED <<reader, delivered, taken>>
    /\ UNCHANGED <<parser, syncOnly, asyncOnly, transport, stream, timed_out,
                   crossed, opened>>

\* the rest of the read_response loop once read_from_socket fed data
AsyncFed(data) ==
    LET fed == Feed(reader, data)
        response == GetsValue(fed, ~dd)
    IN IF LoopAgain(response) THEN
          /\ reader' = fed
          /\ result' = NoResult
          /\ UNCHANGED <<pc, delivered, taken>>
       ELSE
          /\ reader' = GetsReader(fed, ~dd)
          /\ taken' = Append(taken, "read")
          /\ result' = ReplyResult(Surface(response))
          /\ delivered' = Deliver(Surface(response), dd)
          /\ pc' = "idle"

\* the awaited read of read_response completes with bytes
AsyncReadData ==
    /\ parser = "async" /\ pc = "a_rr_await" /\ ~stale_read /\ sockbuf # <<>>
    /\ sockbuf' = SubSeq(sockbuf, Len(AsyncChunk) + 1, Len(sockbuf))
    /\ io' = IO("data", Len(AsyncChunk))
    /\ AsyncFed(AsyncChunk)
    /\ UNCHANGED <<parser, syncOnly, asyncOnly, future, eof, dd, stream, timed_out,
                   crossed, opened>>

\* the awaited read completes with k bytes of the stream of the previous
\* connection
AsyncReadStale(k) ==
    /\ parser = "async" /\ pc = "a_rr_await" /\ stale_read
    /\ k \in 1..Min(socket_read_size, Len(stale))
    /\ stale' = <<>> /\ stale_read' = FALSE
    /\ io' = IO("stale", k)
    /\ AsyncFed(SubSeq(stale, 1, k))
    /\ UNCHANGED <<parser, syncOnly, connected, transport, dd, stream, timed_out,
                   crossed, opened>>

\* a read loop that takes a read of no bytes for "no data yet" and reads
\* again
AsyncReadZero_retry ==
    /\ parser = "async" /\ pc = "a_rr_await"
    /\ stale_read \/ (sockbuf = <<>> /\ eof)
    /\ result' = NoResult
    /\ io' = IO("zero", 0)
    /\ stale' = <<>> /\ stale_read' = FALSE
    /\ UNCHANGED <<parser, reader, syncOnly, connected, transport, pc, dd, history>>

\* the awaited read completes with no bytes: not buffer
AsyncReadZero ==
    /\ parser = "async" /\ pc = "a_rr_await"
    /\ stale_read \/ (sockbuf = <<>> /\ eof)
    /\ result' = AsyncOnZeroRead("read_response")
    /\ io' = IO("zero", 0)
    /\ pc' = "idle"
    /\ stale' = <<>> /\ stale_read' = FALSE
    /\ UNCHANGED <<parser, reader, syncOnly, connected, transport, dd, history>>

AsyncNext ==
    \/ \E st \in Streams, d \in BOOLEAN : a_on_connect(st, d)
    \/ a_on_disconnect
    \/ can_read_destructive
    \/ ZeroWindowExpired
    \/ \E d \in BOOLEAN : a_read_response(d)
    \/ AsyncReadData
    \/ \E k \in 1..socket_read_size : AsyncReadStale(k)
    \/ AsyncReadZero

SyncNext ==
    \/ \E st \in Streams, d \in BOOLEAN, t \in SocketTimeouts : on_connect(st, d, t)
    \/ on_disconnect
    \/ \E t \in ProbeTimeouts : can_read(t)
    \/ \E d \in BOOLEAN : read_response(d)
    \/ SockRecvData
    \/ SockRecvZero
    \/ SockRecvTimeout
    \/ \E c \in NONBLOCKING_EXCEPTIONS, e \in Errnos : SockRecvWouldBlock(c, e)
    \/ SockRecvOSError

EnvNext ==
    \/ \E k \in 1..(MaxWire + 3) : Arrive(k)
    \/ Close

Next == SyncNext \/ AsyncNext \/ EnvNext

Spec == Init /\ [][Next]_vars

\* a transport read in progress completes: with bytes, with none, with a
\* timeout or with an error
ReadCompletes ==
    \/ SockRecvData
    \/ SockRecvZero
    \/ SockRecvTimeout
    \/ \E c \in NONBLOCKING_EXCEPTIONS, e \in Errnos : SockRecvWouldBlock(c, e)
    \/ SockRecvOSError
    \/ AsyncReadData
    \/ \E k \in 1..socket_read_size : AsyncReadStale(k)
    \/ AsyncReadZero
    \/ ZeroWindowExpired

\* Every transport read eventually completes, and the peer eventually sends
\* what it has yet to send or closes.
FairSpec == Spec /\ WF_vars(ReadCompletes) /\ WF_vars(EnvNext)

\* ================================================================ claims
\* How the caller is to get a reply value: an error value, or the error
\* heading a sequence, is raised; anything else is returned as it is.
Outcome(val) ==
    IF val.t = "error" THEN [out |-> "raise", val |-> val]
    ELSE IF val.t = "list" /\ Len(val.e) > 0 /\ val.e[1].t = "error"
    THEN [out |-> "raise", val |-> val.e[1]]
    ELSE [out |-> "return", val |-> val]

\* the i-th reply of the stream as a read_response(disable_decoding=d) call
\* is to yield it
Expected(i, d) == Outcome(View(stream[i], reader.encoding /\ ~d))

\* the j-th delivery is the i-th reply of the stream
Matches(j, i) ==
    /\ i <= Len(stream)
    /\ delivered[j].out = Expected(i, delivered[j].dd).out
    /\ delivered[j].val = Expected(i, delivered[j].dd).val

InOrder == \A j \in 1..Len(delivered) : Matches(j, j)

\* no probe took a reply out of the decoder
NoProbeTook == \A i \in 1..Len(taken) : taken[i] = "read"

\* a read_response is waiting for bytes although the transport has handed
\* over everything the peer sent
Drained ==
    /\ pc \in {"rr_recv", "a_rr_await"}
    /\ future = <<>> /\ sockbuf = <<>> /\ ~eof /\ ~stale_read

\* C1: without probes, the replies read_response has yielded on a
\* connection are the first replies of the stream, each returned (or raised
\* when it is an error), in order, whatever the chunking; and once the whole
\* stream has been read off the transport, every reply of it was yielded.
C1_NoDataLoss ==
    (reader.alive /\ ~crossed /\ NoProbeTook) =>
        /\ InOrder
        /\ Drained => (Len(delivered) = Len(stream) /\ reader.buf = <<>>)

\* two replies that arrived in one chunk were both delivered, the second
\* without a further transport read
C1_Witness ==
    /\ Len(delivered) = 2 /\ Len(stream) = 2 /\ NoProbeTook /\ ~crossed
    /\ result.op = "read_response" /\ io = NoIO /\ reader.alive

\* a reply that arrived split over two reads was delivered
C1_WitnessSplit ==
    /\ Len(delivered) = 1 /\ delivered[1].val.t = "list" /\ NoProbeTook
    /\ io.kind = "data" /\ io.n = 1 /\ result.op = "read_response"

\* C2: on the sync reader, can_read calls before a read_response change
\* nothing about what that read_response yields: the deliveries are the
\* replies of the stream, each returned or raised as without the probes.
C2_ProbeNonDestructive ==
    (parser = "sync" /\ reader.alive) => InOrder

\* the replies the decoder gave to a read_response call, by position
Reads == { i \in 1..Len(taken) : taken[i] = "read" }
NthRead(j) == CHOOSE i \in Reads : Cardinality({ k \in Reads : k <= i }) = j

\* C3 as stated: on the async reader the deliveries are the replies of the
\* stream in order, whatever can_read_destructive calls came in between.
C3_ProbeKeepsReply ==
    (parser = "async" /\ ~crossed) => InOrder

\* C3 amended: a reply that can_read_destructive took out of the decoder is
\* gone; read_response delivers the replies no probe took, in order, so the
\* read_response after such a probe yields the reply that follows.
C3_ProbeDiscardsReply ==
    (parser = "async" /\ ~crossed) =>
        /\ Len(taken) <= Len(stream)
        /\ Len(delivered) = Cardinality(Reads)
        /\ \A j \in 1..Len(delivered) : Matches(j, NthRead(j))

\* a probe took the first reply and read_response delivered the second
C3_Witness ==
    /\ parser = "async" /\ ~crossed
    /\ taken = <<"probe", "read">> /\ Len(delivered) = 1
    /\ result.op = "read_response"

\* a value is a reply of the stream under some decode mode, or the error
\* heading such a reply
IsReplyOfStream(val) ==
    \E i \in 1..Len(stream), text \in BOOLEAN :
        \/ val = View(stream[i], text)
        \/ val = Outcome(View(stream[i], text)).val

Falsy == { Bool("f"), Nil, List(<<>>) }

\* C4: read_response never hands the NOT_ENOUGH_DATA marker to its caller:
\* a call ends by returning or raising, what it yields is never the marker,
\* and on a connection it is a complete reply of the stream.
C4_SentinelNeverLeaks ==
    /\ result.op = "read_response" =>
          /\ result.out \in {"return", "raise"}
          /\ result.exc = "" => result.val # NOT_ENOUGH_DATA
    /\ \A j \in 1..Len(delivered) :
          /\ delivered[j].val # NOT_ENOUGH_DATA
          /\ ~crossed => IsReplyOfStream(delivered[j].val)

\* read_response waited for bytes and returned False, None or an empty list
C4_Witness ==
    /\ result.op = "read_response" /\ result.out = "return"
    /\ result.val \in Falsy /\ io.kind = "data"

\* C5: read_response never returns an error value, or a sequence headed
\* by one, as data.
C5_ErrorSurfacing ==
    (result.op = "read_response" /\ result.out = "return") =>
        Outcome(result.val).out = "return"

\* C6: a transport read of zero bytes ends the call with ConnectionClosed
\* and feeds nothing, whoever called and whatever the decoder holds.
C6_ClosedStream ==
    [][io'.kind = "zero" =>
          /\ result'.out = "raise" /\ result'.exc = ConnectionClosed
          /\ pc' = "idle"
          /\ reader' = reader
          /\ UNCHANGED <<next_response, delivered, taken>>]_vars

\* can_read met the closed stream while the decoder held part of a reply
C6_Witness ==
    /\ io.kind = "zero" /\ result.op = "can_read" /\ reader.buf # <<>>

\* C7: outside read_from_socket the socket's timeout is the standing
\* socket_timeout, whatever override a call has used and however it ended.
C7_TimeoutScoping ==
    (parser = "sync" /\ sock /\ pc # "cr_recv") => sock_timeout = socket_timeout

\* a can_read with an override of 1 timed out on a socket whose standing
\* timeout is 2
C7_Witness ==
    /\ result.op = "can_read" /\ io.kind = "timeout"
    /\ socket_timeout = 2 /\ sock_timeout = 2

\* on_disconnect was called and on_connect not since; no call is in progress
Disconnected ==
    /\ opened /\ pc = "idle"
    /\ IF parser = "sync" THEN ~sock ELSE ~connected

\* the step is, or starts, a call of the reader
CallStep == result'.op # "none" \/ pc' # "idle"

\* C8: a call made after on_disconnect fails at once with ConnectionClosed:
\* no transport read, no use of the decoder, nothing delivered.
C8_FailFast ==
    [][(Disconnected /\ CallStep) =>
          /\ result'.out = "raise" /\ result'.exc = ConnectionClosed
          /\ pc' = "idle"
          /\ io' = NoIO
          /\ UNCHANGED <<reader, next_response, transport, delivered, taken>>]_vars

\* read_response failed on a disconnected async reader whose decoder holds
\* a complete reply
C8_Witness ==
    /\ parser = "async" /\ ~connected
    /\ result = Raised("read_response", ConnectionClosed)
    /\ GetsValue(reader, TRUE) # NOT_ENOUGH_DATA

\* C9: a timeout inside read_response raises ReadTimeout, inside can_read
\* returns false; either way the reader stays connected and its decoder,
\* pending slot and transport are as before, and the replies delivered on a
\* connection that has seen a ReadTimeout are still the replies of the stream.
C9_TimeoutRecoverable ==
    /\ [][io'.kind = "timeout" =>
            /\ result' = IF pc = "rr_recv"
                         THEN Raised("read_response", ReadTimeout)
                         ELSE ReturnedBool("can_read", FALSE)
            /\ pc' = "idle"
            /\ reader' = reader /\ reader.alive /\ sock'
            /\ UNCHANGED <<next_response, transport, delivered, taken>>]_vars
    /\ []((timed_out /\ reader.alive /\ NoProbeTook) =>
            /\ InOrder
            /\ Drained => Len(delivered) = Len(stream))

\* on a connection where a read_response raised ReadTimeout, a later
\* read_response read the rest of a reply that takes several reads and
\* yielded it
C9_Witness ==
    /\ timed_out /\ result.op = "read_response" /\ result.exc = "ReplyError"
    /\ io.kind = "data" /\ Len(delivered) = 1
    /\ Len(stream) = 1 /\ Len(Wire(stream)) > socket_read_size + 1

Within(b, w) ==
    \E k \in 0..(Len(w) - Len(b)) : SubSeq(w, k + 1, k + Len(b)) = b

\* C11: an on_connect made while no read is in flight leaves the reader with
\* an empty pending slot and a new, empty decoder, whatever the previous
\* connection left behind; and from then on whatever the reader holds or
\* delivers comes from the stream of the new connection.
C11_FreshOnReconnect ==
    /\ [][(io'.kind = "connect" /\ pc = "idle") =>
            /\ reader'.alive /\ reader'.buf = <<>>
            /\ next_response' = NOT_ENOUGH_DATA
            /\ delivered' = <<>> /\ taken' = <<>>]_vars
    /\ []((reader.alive /\ ~crossed) =>
            /\ Within(reader.buf, Wire(stream))
            /\ next_response # NOT_ENOUGH_DATA =>
                  \E i \in 1..Len(stream) :
                      next_response = View(stream[i], reader.encoding)
            /\ \A j \in 1..Len(delivered) : IsReplyOfStream(delivered[j].val))

\* a connection was dropped while the reader held bytes or a cached reply,
\* and the connection that replaced it starts empty
C11_Witness ==
    /\ io.kind = "connect" /\ io.n > 0 /\ ~crossed
    /\ reader.alive /\ reader.buf = <<>> /\ next_response = NOT_ENOUGH_DATA

\* C12: on the async reader no transport read completes, and nothing is fed
\* to the decoder, while the connected flag is false, and bytes read from
\* the stream of a previous connection are never fed to the decoder of the
\* connection that replaced it.
C12_NoFeedWhileDisconnected ==
    (parser = "async" /\ io.kind \in {"data", "stale"}) =>
        (connected /\ io.kind = "data")

Probes == {"can_read", "can_read_destructive"}

\* the step is made by a probe: it starts one, or it ends one
ProbeStep ==
    \/ result'.op \in Probes
    \/ pc = "idle" /\ pc' \in {"cr_recv", "a_crd_await"}

\* C13: a probe never leaves the reader partially fed: the bytes a step of
\* a probe takes from the transport are, all of them and in order, appended
\* to the decoder in that same step, or the step takes none; a zero-window
\* expiry returns false with transport and decoder untouched.
C13_ProbeAtomicity ==
    [][/\ ProbeStep =>
            /\ future' = future /\ eof' = eof
            /\ \E k \in 0..Len(sockbuf) :
                  /\ sockbuf' = SubSeq(sockbuf, k + 1, Len(sockbuf))
                  /\ IF k > 0
                     THEN reader'.buf = reader.buf \o SubSeq(sockbuf, 1, k)
                     ELSE reader' \in {reader, GetsReader(reader, TRUE)}
       /\ io'.kind = "expired" =>
            /\ result' = ReturnedBool("can_read_destructive", FALSE)
            /\ pc' = "idle"
            /\ UNCHANGED <<reader, transport>>]_vars

\* a probe took bytes off the transport while the decoder held the start of
\* a reply, and the decoder now holds both
C13_Witness ==
    /\ result.op \in Probes /\ result.b /\ io.kind = "data"
    /\ Len(reader.buf) > io.n

\* C14: a can_read on a connected sync reader reads the socket at most once.
\* With a cached reply, or a complete reply in the decoder (which it then
\* caches), it returns true without a read.  Otherwise it sets the override
\* timeout and makes one read_from_socket call that does not raise on
\* timeout: the read that completes ends the call, true for bytes and false
\* for a timeout, and nothing is decoded after it.
C14_CanReadBudget ==
    [][(parser = "sync" /\ reader.alive) =>
          /\ (pc = "idle" /\ (result'.op = "can_read" \/ pc' = "cr_recv")) =>
                /\ io' = NoIO /\ UNCHANGED transport
                /\ IF next_response # NOT_ENOUGH_DATA THEN
                      /\ result' = ReturnedBool("can_read", TRUE) /\ pc' = "idle"
                      /\ UNCHANGED <<next_response, reader, sock_timeout>>
                   ELSE IF GetsValue(reader, TRUE) # NOT_ENOUGH_DATA THEN
                      /\ result' = ReturnedBool("can_read", TRUE) /\ pc' = "idle"
                      /\ next_response' = GetsValue(reader, TRUE)
                      /\ reader' = GetsReader(reader, TRUE)
                      /\ UNCHANGED sock_timeout
                   ELSE
                      /\ pc' = "cr_recv" /\ result' = NoResult
                      /\ sock_timeout' \in ProbeTimeouts
                      /\ UNCHANGED <<next_response, reader>>
          /\ (pc = "cr_recv" /\ io'.kind = "none") =>
                (pc' = "cr_recv" /\ UNCHANGED <<reader, next_response>>)
          /\ (pc = "cr_recv" /\ io'.kind # "none") =>
                /\ pc' = "idle" /\ result'.op = "can_read"
                /\ UNCHANGED <<next_response, taken, delivered>>
                /\ io'.kind = "data" =>
                      /\ result' = ReturnedBool("can_read", TRUE)
                      /\ Len(reader'.buf) = Len(reader.buf) + io'.n
                /\ io'.kind = "timeout" => result' = ReturnedBool("can_read", FALSE)
                /\ result'.out = "return" => (result'.b <=> io'.kind = "data")]_vars

\* can_read made its one read and returned true; the decoder now holds a
\* complete reply that the call did not decode
C14_Witness ==
    /\ result = ReturnedBool("can_read", TRUE) /\ io.kind = "data"
    /\ next_response = NOT_ENOUGH_DATA
    /\ GetsValue(reader, TRUE) # NOT_ENOUGH_DATA

\* the slot holds a reply
Pending == next_response # NOT_ENOUGH_DATA

\* C15: on the sync reader the pending slot is empty or holds the one reply
\* the last can_read decoded; only can_read fills it, and only when it is
\* empty; can_read leaves a filled slot alone; the next read_response
\* returns the cached reply and empties the slot; every reply taken out of
\* the decoder is delivered once, the j-th delivery being the j-th reply.
C15_PendingSlot ==
    /\ []((parser = "sync" /\ reader.alive) =>
            /\ Pending =>
                  /\ taken # <<>> /\ taken[Len(taken)] = "probe"
                  /\ Len(taken) <= Len(stream)
                  /\ next_response = View(stream[Len(taken)], reader.encoding)
            /\ Len(delivered) + (IF Pending THEN 1 ELSE 0) = Len(taken)
            /\ \A j \in 1..Len(delivered) :
                  /\ j <= Len(stream)
                  /\ \E text \in BOOLEAN :
                        delivered[j].val \in { View(stream[j], text),
                                               Outcome(View(stream[j], text)).val })
    /\ [][parser = "sync" =>
            /\ (~Pending /\ Pending') =>
                  /\ result' = ReturnedBool("can_read", TRUE)
                  /\ next_response' = GetsValue(reader, TRUE)
            /\ (Pending /\ next_response' # next_response) =>
                  \/ io'.kind = "disconnect"
                  \/ /\ result'.op = "read_response" /\ result'.val = next_response
                     /\ ~Pending' /\ reader' = reader /\ io' = NoIO
                     /\ Len(delivered') = Len(delivered) + 1
            /\ (Pending /\ (result'.op = "can_read" \/ pc' = "cr_recv")) =>
                  UNCHANGED <<next_response, reader, delivered>>
            /\ (Pending /\ (result'.op = "read_response" \/ pc' = "rr_recv")) =>
                  /\ result'.val = next_response /\ ~Pending'
                  /\ delivered'[Len(delivered')].val = next_response]_vars

\* read_response returned the reply can_read had cached, and the next
\* read_response returned the reply after it
C15_Witness ==
    /\ parser = "sync" /\ taken = <<"probe", "read">> /\ Len(delivered) = 2
    /\ ~Pending /\ result.op = "read_response"

\* the wire bytes of the replies already taken out of the decoder
Consumed == Wire(SubSeq(stream, 1, Len(taken)))

IsPrefix(b, w) == Len(b) <= Len(w) /\ SubSeq(w, 1, Len(b)) = b

\* the decoder rd once data was fed to it, before or after it gave a reply
AfterFeed(rd, data) ==
    { Feed(rd, data), GetsReader(Feed(rd, data), TRUE) }

\* C16: what has been fed to the decoder is what the transport reads
\* returned: a step that reads n bytes appends exactly those n bytes to the
\* decoder, a step that reads none appends none, and so the bytes decoded,
\* the bytes the decoder holds and the bytes still unread make up the
\* stream, each byte once and in order.
C16_FeedFidelity ==
    /\ [][/\ io'.kind = "data" =>
              /\ sockbuf' = SubSeq(sockbuf, io'.n + 1, Len(sockbuf))
              /\ reader' \in AfterFeed(reader, SubSeq(sockbuf, 1, io'.n))
          /\ io'.kind = "stale" =>
              reader' \in AfterFeed(reader, SubSeq(stale, 1, io'.n))
          /\ io'.kind \notin {"data", "stale", "connect"} =>
              reader' \in {reader, GetsReader(reader, TRUE), NoReader}]_vars
    /\ []((reader.alive /\ ~crossed) =>
            /\ Len(taken) <= Len(stream)
            /\ IF eof
               THEN IsPrefix(Consumed \o reader.buf \o sockbuf, Wire(stream))
               ELSE Consumed \o reader.buf \o sockbuf \o future = Wire(stream))

\* a read that returned fewer bytes than the buffer holds was fed to a
\* decoder that already held the start of the reply
C16_Witness ==
    /\ parser = "sync" /\ io.kind = "data" /\ io.n < socket_read_size
    /\ Len(reader.buf) > io.n

InReadResponse == pc \in {"rr_recv", "a_rr_await"}

\* C18: a read_response leaves its read loop only by returning a complete
\* reply or by raising, and, every transport read completing and the peer
\* sending on or closing, it does leave it.
C18_Terminates ==
    /\ [][(InReadResponse /\ pc' # pc) =>
            /\ pc' = "idle" /\ result'.op = "read_response"
            /\ result'.out \in {"return", "raise"}
            /\ result'.out = "return" => result'.val # NOT_ENOUGH_DATA]_vars
    /\ InReadResponse ~> (pc = "idle" /\ result.op = "read_response")

\* a read_response returned a reply that reached it in more than one
\* transport read
C18_Witness ==
    /\ result.op = "read_response" /\ result.out = "return" /\ io.kind = "data"
    /\ Len(stream) = 1 /\ Len(delivered) = 1 /\ io.n < Len(Wire(stream))
    /\ taken = <<"read">>

\* C19: on the sync reader every reply read_response(disable_decoding=d)
\* hands over is in the decode mode that call asked for, whether it raises
\* or returns it and whatever can_read calls came before.
C19_DecodeModeHonoured ==
    (parser = "sync" /\ reader.alive) =>
        \A j \in 1..Len(delivered) :
            /\ j <= Len(stream)
            /\ LET wanted == View(stream[j], reader.encoding /\ ~delivered[j].dd)
               IN delivered[j].val \in { wanted, Outcome(wanted).val }

\* what a probe may not change when it answers false
ReaderState ==
    <<reader, next_response, connected, sock, socket_timeout, transport,
      delivered, taken>>

\* C20: a probe that returns false has changed nothing: entering it and
\* leaving it keep the connected flag, the pending slot, the decoder and
\* the unread bytes of the transport, no reply is taken or delivered, and
\* the sync socket's timeout, the standing one when the probe starts, is
\* the standing one again when it returns.
C20_NegativeProbe ==
    [][/\ (pc = "idle" /\ pc' \in {"cr_recv", "a_crd_await"}) =>
            /\ UNCHANGED ReaderState
            /\ parser = "sync" => sock_timeout = socket_timeout
       /\ (result'.op \in Probes /\ result'.out = "return" /\ ~result'.b) =>
            /\ pc \in {"cr_recv", "a_crd_await"} /\ pc' = "idle"
            /\ UNCHANGED ReaderState
            /\ parser = "sync" => sock_timeout' = socket_timeout]_vars

\* can_read_destructive answered false; the decoder still holds the start
\* of a reply and the bytes that arrived meanwhile are still unread
C20_Witness ==
    /\ result = ReturnedBool("can_read_destructive", FALSE) /\ io.kind = "expired"
    /\ reader.buf # <<>> /\ sockbuf # <<>>
====
